---- MODULE Spec2Model ----
(***************************************************************************)
(* live-diff: the shared Monaco text models owned by App, the debounced    *)
(* language auto-detection effect, and the swap / clear handlers           *)
(* (src/src/App.tsx, the model-based App, lines 412-696).                  *)
(*                                                                         *)
(* A text is a sequence of one-character strings.  One action is one       *)
(* event-loop task: a user event, a timer callback or a render, together   *)
(* with the React render and the effects it causes.                        *)
(***************************************************************************)
EXTENDS Integers, Sequences, FiniteSets, TLC

\* ------------------------------------------------------------------ bounds
MaxLen == 1
MaxTags == 2
MaxTimers == 2
MaxBurst == 2
MaxDispose == 1
\* models the prop-driven widgets create in a behaviour
MaxModels == 8
\* commits a change of the content state may schedule after its own
MaxRounds == 3

\* --------------------------------------------------------------- constants
\* substring(0, 1000) of each buffer in the timer callback
SAMPLE_LEN == 1000

Names == {"original", "modified"}

\* characters a user can type; " " is whitespace, "\n" joins the two samples
Chars == {" ", "a"}
Whitespace == {" ", "\n"}

Text == UNION {[1..k -> Chars] : k \in 0..MaxLen}

LANGUAGES ==
    << "plaintext", "javascript", "typescript", "python", "java", "cpp", "c",
       "csharp", "go", "rust", "ruby", "php", "swift", "kotlin", "html", "css",
       "json", "yaml", "markdown", "latex", "sql", "shell", "dockerfile" >>

Catalog == {LANGUAGES[i] : i \in 1..Len(LANGUAGES)}

\* LANGUAGES.map(l => l.value).filter(v => v !== 'plaintext')
languageSubset == SelectSeq(LANGUAGES, LAMBDA v : v # "plaintext")

Min(a, b) == IF a <= b THEN a ELSE b

\* the entries of the language menu the model lets the user pick:
\* 'auto' (Header.tsx:29) and the first MaxTags catalog entries
SelectableLanguages ==
    {"auto"} \cup {LANGUAGES[i] : i \in 1..Min(MaxTags, Len(LANGUAGES))}

\* what hljs.highlightAuto(content, subset) can do: throw, return no language,
\* or return one of the names it was given (the first MaxTags of them here)
ClassifierOutcomes(subset) ==
    {"throw", "none"} \cup {subset[i] : i \in 1..Min(MaxTags, Len(subset))}

toMonacoLanguage(lang) ==
    IF lang = "" \/ lang = "auto" \/ lang = "plaintext" THEN "plaintext"
    ELSE IF lang = "dockerfile" THEN "dockerfile"
    ELSE IF lang = "csharp" THEN "csharp"
    ELSE lang

effectiveLanguage(lang, detected) == IF lang = "auto" THEN detected ELSE lang

\* String.prototype.substring(0, n)
Substring0(s, n) == SubSeq(s, 1, Min(Len(s), n))

\* the positions of s that hold no whitespace
NonBlank(s) == {i \in 1..Len(s) : s[i] \notin Whitespace}

\* s from its first character that is no whitespace on
TrimStart(s) ==
    LET keep == NonBlank(s)
    IN  IF keep = {} THEN << >>
        ELSE SubSeq(s, CHOOSE i \in keep : \A j \in keep : i <= j, Len(s))

\* s up to its last character that is no whitespace
TrimEnd(s) ==
    LET keep == NonBlank(s)
    IN  IF keep = {} THEN << >>
        ELSE SubSeq(s, 1, CHOOSE i \in keep :
                              \A j \in (i + 1)..Len(s) : s[j] \in Whitespace)

\* String.prototype.trim()
Trim(s) == TrimEnd(TrimStart(s))

\* faulty variant: the sample is not trimmed
ContentToDetectNoTrim(orig, mod) ==
    Substring0(orig, SAMPLE_LEN) \o << "\n" >> \o Substring0(mod, SAMPLE_LEN)
\* faulty variant: the whole texts are joined, not their first 1000 characters
ContentToDetectWhole(orig, mod) == Trim(orig \o << "\n" >> \o mod)
\* `${origSample}\n${modSample}`.trim()
ContentToDetect(orig, mod) ==
    Trim(Substring0(orig, SAMPLE_LEN) \o << "\n" >> \o Substring0(mod, SAMPLE_LEN))

\* ------------------------------------------------------------------- state
VARIABLES
    language,           \* useState('auto'): 'auto' or a catalog tag
    detectedLanguage,   \* useState('plaintext')
    isFullscreen,       \* useState(false)
    mounted,            \* the MonacoEditors instances mounted: "editors", "diff"
    modelRef,           \* originalModelRef / modifiedModelRef .current: instance id
    disposed,           \* isDisposed() of the instance each ref holds
    text,               \* getValue() of the instance each ref holds
    modelLang,          \* language id of the instance each ref holds
    created,            \* monaco.editor.createModel calls made for each name
    nextId,             \* id of the next model instance
    timer,              \* the detection effect's closure variable (0 = null)
    pending,            \* ids of the setTimeout callbacks not yet run or cleared
    listeners,          \* names whose model carries the effect's detect listener
    lastOp,             \* the task that produced this state
    notifs,             \* change notifications emitted during that task
    threw,              \* whether that task ended in an uncaught exception
    lastRun,            \* what the timer callback of that task did
    textAtTrigger,      \* buffer texts at the latest detect() call
    runsSinceTrigger,   \* timer callbacks run since the latest detect() call
    burst,              \* detect() calls since the latest timer callback
    disposals,          \* models disposed from outside App so far
    appMounted,         \* whether App is mounted
    darkMode,           \* useState(lazy): the dark mode flag
    editorHeight,       \* useState(lazy): height of the editor panel in px
    isResizing,         \* isResizing.current
    innerHeight,        \* window.innerHeight
    storage,            \* localStorage: the entry under each key
    storageAtLoad,      \* localStorage as the lazy initialisers found it
    clientY,            \* clientY of the mousemove of that task (0 if none)
    diffStyle,          \* earlier configuration, useState(lazy): 'split' or 'unified'
    lineDiffType,       \* earlier configuration, useState(lazy): inline granularity
    showBackgrounds,    \* earlier configuration, useState(lazy)
    wrapText,           \* earlier configuration, useState(lazy)
    showLineNumbers,    \* earlier configuration, useState(lazy)
    settingStorage,     \* earlier configuration: localStorage under its five keys
    settingStorageAtLoad, \* that store as the lazy initialisers found it
    variant,            \* earlier configuration: the widget it is built with
    contentState,       \* useState(''): originalContent / modifiedContent
    wLanguage,          \* the monacoLang the widgets are given
    wMounted,           \* the MonacoEditors instances mounted, by mode
    wRef,               \* the model refs of the instance of each mode (0 = null)
    wModels,            \* every model a widget created: text, language, disposals
    wNextId,            \* id of the next model a widget creates
    wTask               \* notifications, setValue calls and commits of that task

vars ==
    << language, detectedLanguage, isFullscreen, mounted, modelRef, disposed,
       text, modelLang, created, nextId, timer, pending, listeners, lastOp,
       notifs, threw, lastRun, textAtTrigger, runsSinceTrigger, burst,
       disposals, appMounted, darkMode, editorHeight, isResizing, innerHeight,
       storage, storageAtLoad, clientY, diffStyle, lineDiffType,
       showBackgrounds, wrapText, showLineNumbers, settingStorage,
       settingStorageAtLoad, variant, contentState, wLanguage, wMounted,
       wRef,
       wModels, wNextId, wTask >>

\* the preferences of the earlier configuration
settingVars ==
    << diffStyle, lineDiffType, showBackgrounds, wrapText, showLineNumbers,
       settingStorage, settingStorageAtLoad >>

\* the content state and the prop-driven widgets of the earlier configuration
widgetVars ==
    << variant, contentState, wLanguage, wMounted, wRef, wModels, wNextId,
       wTask >>

\* the state of the earlier configuration, left alone by the current App
earlierVars == << settingVars, widgetVars >>

\* the preference and layout state, left alone by the buffer tasks
uiVars ==
    << darkMode, editorHeight, isResizing, innerHeight, storage, storageAtLoad,
       clientY >>

\* the buffer and detection state, left alone by the layout tasks
bufVars ==
    << language, detectedLanguage, isFullscreen, mounted, modelRef, disposed,
       text, modelLang, created, nextId, timer, pending, listeners, notifs,
       threw, lastRun, textAtTrigger, runsSinceTrigger, burst >>

NoRun == [status |-> "none"]
NoText == [n \in Names |-> << >>]

\* the program state as one value, threaded through a task's statements
Cur ==
    [ language |-> language, detectedLanguage |-> detectedLanguage,
      isFullscreen |-> isFullscreen, mounted |-> mounted,
      modelRef |-> modelRef, disposed |-> disposed, text |-> text,
      modelLang |-> modelLang, created |-> created, nextId |-> nextId,
      timer |-> timer, pending |-> pending, listeners |-> listeners,
      notifs |-> << >>, threw |-> FALSE, run |-> NoRun,
      textAtTrigger |-> textAtTrigger, runsSinceTrigger |-> runsSinceTrigger,
      burst |-> burst ]

\* ----------------------------------------------------- the detection timer
FreeTimerIds(p) == (1..MaxTimers) \ p

\* faulty variant: detect() without clearTimeout
detectNoClear(s) ==
    LET free == FreeTimerIds(s.pending)
        id == IF free = {} THEN 0 ELSE CHOOSE i \in free : \A j \in free : i <= j
    IN  [s EXCEPT !.timer = id,
                  !.pending = IF id = 0 THEN @ ELSE @ \cup {id},
                  !.textAtTrigger = s.text,
                  !.runsSinceTrigger = 0,
                  !.burst = Min(@ + 1, MaxBurst)]

\* detect(): if (timer) clearTimeout(timer); timer = setTimeout(..., 500)
detect(s) ==
    LET kept == IF s.timer # 0 THEN s.pending \ {s.timer} ELSE s.pending
        free == FreeTimerIds(kept)
        id == IF free = {} THEN 0 ELSE CHOOSE i \in free : \A j \in free : i <= j
    IN  [s EXCEPT !.timer = id,
                  !.pending = IF id = 0 THEN kept ELSE kept \cup {id},
                  !.textAtTrigger = s.text,
                  !.runsSinceTrigger = 0,
                  !.burst = Min(@ + 1, MaxBurst)]

\* a model's onDidChangeContent fires: every listener runs synchronously and
\* sees the texts as they are at that moment
Notify(s, n) ==
    LET logged == [s EXCEPT !.notifs = Append(@, [buf |-> n, seen |-> s.text])]
    IN  IF n \in s.listeners THEN detect(logged) ELSE logged

\* ITextModel.setValue(v): throws on a disposed model, otherwise replaces the
\* text and fires onDidChangeContent, whatever the text was before
setValue(s, n, v) ==
    IF s.threw THEN s
    ELSE IF s.disposed[n] THEN [s EXCEPT !.threw = TRUE]
    ELSE Notify([s EXCEPT !.text[n] = v], n)

\* ------------------------------------------------ shared models (acquire)
\* faulty variant: createModel on every render, whatever the ref holds
AcquireModelAlways(s, n) ==
    [s EXCEPT !.modelRef[n] = s.nextId,
              !.nextId = @ + 1,
              !.disposed[n] = FALSE,
              !.text[n] = << >>,
              !.modelLang[n] = "plaintext",
              !.created[n] = @ + 1]
\* faulty variant: a disposed instance is taken for a live one
AcquireModelNullOnly(s, n) ==
    IF s.modelRef[n] = 0
    THEN [s EXCEPT !.modelRef[n] = s.nextId,
                   !.nextId = @ + 1,
                   !.disposed[n] = FALSE,
                   !.text[n] = << >>,
                   !.modelLang[n] = "plaintext",
                   !.created[n] = @ + 1]
    ELSE s
\* if (!ref.current || ref.current.isDisposed())
\*     ref.current = monaco.editor.createModel('', 'plaintext')
AcquireModel(s, n) ==
    IF s.modelRef[n] = 0 \/ s.disposed[n]
    THEN [s EXCEPT !.modelRef[n] = s.nextId,
                   !.nextId = @ + 1,
                   !.disposed[n] = FALSE,
                   !.text[n] = << >>,
                   !.modelLang[n] = "plaintext",
                   !.created[n] = @ + 1]
    ELSE s

\* ------------------------------------------------- the consuming widgets
\* a MonacoEditors instance given the shared models: it attaches them to its
\* editors on mount and, on unmount, disposes its editors and listeners only
WidgetMount(s, w) == [s EXCEPT !.mounted = @ \cup {w}]

WidgetUnmount(s, w) == [s EXCEPT !.mounted = @ \ {w}]

\* {!isFullscreen && <MonacoEditors mode="editors" />}
\* <MonacoEditors mode="diff" />
ReconcileWidgets(s) ==
    LET withDiff == IF "diff" \in s.mounted THEN s ELSE WidgetMount(s, "diff")
    IN  IF ~s.isFullscreen /\ "editors" \notin withDiff.mounted
        THEN WidgetMount(withDiff, "editors")
        ELSE IF s.isFullscreen /\ "editors" \in withDiff.mounted
        THEN WidgetUnmount(withDiff, "editors")
        ELSE withDiff

\* -------------------------------------------------- the detection effect
\* faulty variant: the cleanup disposes the listeners and leaves the timer pending
EffectCleanupNoClear(s) ==
    [s EXCEPT !.timer = 0, !.listeners = {}, !.burst = 0]

\* return () => { if (timer) clearTimeout(timer); d1.dispose(); d2.dispose() }
EffectCleanup(s) ==
    [s EXCEPT !.pending = IF s.timer # 0 THEN @ \ {s.timer} ELSE @,
              !.timer = 0,
              !.listeners = {},
              !.burst = 0]

\* faulty variant: a concrete selection leaves detectedLanguage alone
EffectBodyFrozen(s) ==
    IF s.language # "auto"
    THEN [s EXCEPT !.textAtTrigger = NoText]
    ELSE [detect([s EXCEPT !.timer = 0]) EXCEPT !.listeners = Names]
\* faulty variant: only the original model is listened to
EffectBodyOneListener(s) ==
    IF s.language # "auto"
    THEN [s EXCEPT !.detectedLanguage = s.language, !.textAtTrigger = NoText]
    ELSE [detect([s EXCEPT !.timer = 0]) EXCEPT !.listeners = {"original"}]
\* the effect body: a concrete selection overwrites detectedLanguage and
\* returns; 'auto' runs detect() once and listens to both models
EffectBody(s) ==
    IF s.language # "auto"
    THEN [s EXCEPT !.detectedLanguage = s.language, !.textAtTrigger = NoText]
    ELSE [detect([s EXCEPT !.timer = 0]) EXCEPT !.listeners = Names]

\* useEffect(..., [language, originalModel, modifiedModel])
DetectionEffect(old, s) ==
    IF s.language # old.language \/ s.modelRef # old.modelRef
    THEN EffectBody(EffectCleanup(s))
    ELSE s

monacoLang(s) == toMonacoLanguage(effectiveLanguage(s.language, s.detectedLanguage))
\* faulty variant: the effect depends on monacoLang alone
LanguageSyncEffectLangOnly(old, s) ==
    IF monacoLang(s) # monacoLang(old)
    THEN [s EXCEPT !.modelLang = [n \in Names |-> monacoLang(s)]]
    ELSE s
\* useEffect(() => { setModelLanguage(originalModel, monacoLang); ... },
\*           [monacoLang, originalModel, modifiedModel])
LanguageSyncEffect(old, s) ==
    IF monacoLang(s) # monacoLang(old) \/ s.modelRef # old.modelRef
    THEN [s EXCEPT !.modelLang = [n \in Names |-> monacoLang(s)]]
    ELSE s

\* one render of App after a state update, with the effects it causes; old is
\* the state the previous render and its effects saw
RenderApp(old, s) ==
    LET acquired == AcquireModel(AcquireModel(s, "original"), "modified")
        widgets == ReconcileWidgets(acquired)
        detected == DetectionEffect(old, widgets)
    IN  LanguageSyncEffect(old, detected)

\* App leaves the tree: its children are unmounted and the cleanup of the
\* detection effect runs; the shared models are not disposed
unmountApp(s) ==
    LET diffGone == IF "diff" \in s.mounted THEN WidgetUnmount(s, "diff") ELSE s
        editorsGone == IF "editors" \in diffGone.mounted
                       THEN WidgetUnmount(diffGone, "editors")
                       ELSE diffGone
    IN  EffectCleanup(editorsGone)

\* ------------------------------------------------------------ the handlers
\* faulty variant: the second write reads the original model after the first write
handleSwapSequential(s) ==
    IF s.disposed["original"] \/ s.disposed["modified"]
    THEN [s EXCEPT !.threw = TRUE]
    ELSE LET first == setValue(s, "original", s.text["modified"])
         IN  setValue(first, "modified", first.text["original"])

\* const origVal = originalModel.getValue(); const modVal = modifiedModel.getValue()
\* originalModel.setValue(modVal); modifiedModel.setValue(origVal)
handleSwap(s) ==
    IF s.disposed["original"] \/ s.disposed["modified"]
    THEN [s EXCEPT !.threw = TRUE]
    ELSE LET origVal == s.text["original"]
             modVal == s.text["modified"]
         IN  setValue(setValue(s, "original", modVal), "modified", origVal)

handleClear(s) == setValue(setValue(s, "original", << >>), "modified", << >>)
\* faulty variant: clearing the original clears the modified model too
handleClearOriginalBoth(s) == setValue(setValue(s, "original", << >>), "modified", << >>)
handleClearOriginal(s) == setValue(s, "original", << >>)

handleClearModified(s) == setValue(s, "modified", << >>)

\* setLanguage(l) from the language menu, then the render it causes
setLanguage(s, l) ==
    IF l = s.language THEN s ELSE RenderApp(s, [s EXCEPT !.language = l])

\* setIsFullscreen(prev => !prev), then the render it causes
toggleFullscreen(s) == RenderApp(s, [s EXCEPT !.isFullscreen = ~@])

\* setDetectedLanguage(x), then the render it causes
setDetectedLanguage(s, x) ==
    IF x = s.detectedLanguage THEN s
    ELSE RenderApp(s, [s EXCEPT !.detectedLanguage = x])

\* faulty variant: no try/catch around the classifier call
ClassifyNoCatch(s, content, outcome) ==
    LET ran == [s EXCEPT !.run = [status |-> "classified", read |-> s.text,
                                  sample |-> content, allowed |-> languageSubset,
                                  outcome |-> outcome, burst |-> s.burst]]
    IN  IF outcome = "throw" THEN [ran EXCEPT !.threw = TRUE]
        ELSE IF outcome = "none" THEN setDetectedLanguage(ran, "plaintext")
        ELSE setDetectedLanguage(ran, outcome)

\* faulty variant: result.language is adopted without the || 'plaintext' fallback
ClassifyNoFallback(s, content, outcome) ==
    LET ran == [s EXCEPT !.run = [status |-> "classified", read |-> s.text,
                                  sample |-> content, allowed |-> languageSubset,
                                  outcome |-> outcome, burst |-> s.burst]]
    IN  IF outcome = "throw" THEN setDetectedLanguage(ran, "plaintext")
        ELSE setDetectedLanguage(ran, outcome)

\* try { result = hljs.highlightAuto(content, languageSubset)
\*       setDetectedLanguage(result.language || 'plaintext') }
\* catch { setDetectedLanguage('plaintext') }
\* outcome is what the classifier does with this call
Classify(s, content, outcome) ==
    LET ran == [s EXCEPT !.run = [status |-> "classified", read |-> s.text,
                                  sample |-> content, allowed |-> languageSubset,
                                  outcome |-> outcome, burst |-> s.burst]]
    IN  IF outcome = "throw" THEN setDetectedLanguage(ran, "plaintext")
        ELSE IF outcome = "none" THEN setDetectedLanguage(ran, "plaintext")
        ELSE setDetectedLanguage(ran, outcome)

\* the setTimeout callback of detect(); getValue() throws on a disposed model
DetectCallback(s, outcome) ==
    IF s.disposed["original"] \/ s.disposed["modified"]
    THEN [s EXCEPT !.threw = TRUE, !.run = [status |-> "threw"]]
    ELSE LET contentToDetect == ContentToDetect(s.text["original"], s.text["modified"])
         IN  IF contentToDetect = << >>
             THEN setDetectedLanguage(
                      [s EXCEPT !.run = [status |-> "blank", read |-> s.text,
                                         sample |-> contentToDetect,
                                         burst |-> s.burst]],
                      "plaintext")
             ELSE Classify(s, contentToDetect, outcome)

\* the browser runs the pending timer id
RunTimer(s, id, outcome) ==
    LET fired == [s EXCEPT !.pending = @ \ {id},
                           !.runsSinceTrigger = @ + 1]
        done == DetectCallback(fired, outcome)
    IN  IF done.run.status = "threw" THEN done
        ELSE [done EXCEPT !.burst = IF done.pending = {} THEN 0 ELSE @]

\* ------------------------------------------------ preferences and resizing
\* bounds of the viewport heights and pointer positions explored
MaxViewports == 3
ViewportStep == 150
MaxPointerSteps == 5
PointerStep == 86

ViewportHeights == {ViewportStep * k : k \in 1..MaxViewports}
PointerYs == {PointerStep * k : k \in 0..MaxPointerSteps}

MIN_EDITOR_HEIGHT == 100
HEADER_HEIGHT == 56
\* the literal 220 of the lazy initialiser of editorHeight and of onDoubleClick
DefaultEditorHeight == 220

\* Math.floor(window.innerHeight * MAX_EDITOR_HEIGHT_RATIO), the ratio being
\* 0.6; for an integer innerHeight the double product floors to this quotient
maxHeight(h) == (h * 6) \div 10

containerTop == HEADER_HEIGHT + 16

\* STORAGE_KEYS
DARK_MODE == "live-diff-dark-mode"
EDITOR_HEIGHT == "live-diff-editor-height"
StorageKeys == {DARK_MODE, EDITOR_HEIGHT}

\* a localStorage entry: getItem returns null for a key that is not present
Null == [present |-> FALSE, value |-> << >>]
Item(v) == [present |-> TRUE, value |-> v]
getItem(st, key) == st[key]
setItem(st, key, v) == [st EXCEPT ![key] = Item(v)]

Digits == << "0", "1", "2", "3", "4", "5", "6", "7", "8", "9" >>
IsDigit(c) == \E d \in 1..10 : Digits[d] = c
DigitValue(c) == (CHOOSE d \in 1..10 : Digits[d] = c) - 1

\* String(n) of an integer: its decimal digits, most significant first
RECURSIVE NatToString(_)
NatToString(n) ==
    IF n < 10 THEN << Digits[n + 1] >>
    ELSE NatToString(n \div 10) \o << Digits[(n % 10) + 1] >>

NumberToString(n) == IF n < 0 THEN << "-" >> \o NatToString(-n) ELSE NatToString(n)

\* String(b) of a boolean
BooleanToString(b) ==
    IF b THEN << "t", "r", "u", "e" >> ELSE << "f", "a", "l", "s", "e" >>

RECURSIVE DigitPrefix(_)
DigitPrefix(s) ==
    IF s # << >> /\ IsDigit(Head(s))
    THEN << Head(s) >> \o DigitPrefix(Tail(s))
    ELSE << >>

RECURSIVE DigitsValue(_, _)
DigitsValue(s, acc) ==
    IF s = << >> THEN acc
    ELSE DigitsValue(Tail(s), acc * 10 + DigitValue(Head(s)))

NaN == [nan |-> TRUE, value |-> 0]

\* parseInt(string, 10): leading whitespace is skipped, then an optional sign
\* and the longest run of decimal digits are read and the rest of the string
\* is ignored; the result is NaN when no digit was read
parseInt(string) ==
    LET s == TrimStart(string)
        signed == s # << >> /\ Head(s) \in {"-", "+"}
        negative == s # << >> /\ Head(s) = "-"
        ds == DigitPrefix(IF signed THEN Tail(s) ELSE s)
    IN  IF ds = << >> THEN NaN
        ELSE [nan |-> FALSE,
              value |-> IF negative THEN -DigitsValue(ds, 0)
                        ELSE DigitsValue(ds, 0)]

\* the lazy initialiser of darkMode
loadDarkMode(st) ==
    LET stored == getItem(st, DARK_MODE)
    IN  stored.present /\ stored.value = << "t", "r", "u", "e" >>

\* faulty variant: the lower bound is not validated
loadEditorHeightNoMin(st) ==
    LET stored == getItem(st, EDITOR_HEIGHT)
        parsed == parseInt(IF stored.present THEN stored.value ELSE << >>)
    IN  IF ~parsed.nan THEN parsed.value ELSE DefaultEditorHeight
\* the lazy initialiser of editorHeight; stored || '' is '' for null
loadEditorHeight(st) ==
    LET stored == getItem(st, EDITOR_HEIGHT)
        parsed == parseInt(IF stored.present THEN stored.value ELSE << >>)
    IN  IF ~parsed.nan /\ parsed.value >= MIN_EDITOR_HEIGHT
        THEN parsed.value
        ELSE DefaultEditorHeight

\* faulty variant: a raw height under the minimum is committed as it is
handleResizeNoMin(resizing, height, viewport, y) ==
    IF ~resizing THEN height
    ELSE LET newHeight == y - containerTop
         IN  IF newHeight <= maxHeight(viewport) THEN newHeight
             ELSE maxHeight(viewport)
\* faulty variant: isResizing.current is not consulted
handleResizeUnguarded(resizing, height, viewport, y) ==
    LET newHeight == y - containerTop
    IN  IF newHeight >= MIN_EDITOR_HEIGHT /\ newHeight <= maxHeight(viewport)
        THEN newHeight
        ELSE IF newHeight < MIN_EDITOR_HEIGHT THEN MIN_EDITOR_HEIGHT
        ELSE maxHeight(viewport)
\* the window mousemove listener: the editorHeight it leaves, for the pointer
\* at clientY = y in a viewport of the given innerHeight
handleResize(resizing, height, viewport, y) ==
    IF ~resizing THEN height
    ELSE LET newHeight == y - containerTop
         IN  IF newHeight >= MIN_EDITOR_HEIGHT /\ newHeight <= maxHeight(viewport)
             THEN newHeight
             ELSE IF newHeight < MIN_EDITOR_HEIGHT THEN MIN_EDITOR_HEIGHT
             ELSE IF newHeight > maxHeight(viewport) THEN maxHeight(viewport)
             ELSE height

\* faulty variant: the handle resets to the minimum height
resetEditorHeightToMin(height) == MIN_EDITOR_HEIGHT
\* onDoubleClick of the resize handle
resetEditorHeight(height) == DefaultEditorHeight

\* toggleDarkMode: setDarkMode(prev => !prev)
toggleDarkMode(dark) == ~dark

\* faulty variant: the height is not written when it changes
persistEditorHeightNever(st, old, new) == st
\* the effect on [editorHeight]: runs after a render in which it changed
persistEditorHeight(st, old, new) ==
    IF new # old THEN setItem(st, EDITOR_HEIGHT, NumberToString(new)) ELSE st

\* the effect on [darkMode]: runs after a render in which it changed
persistDarkMode(st, old, new) ==
    IF new # old THEN setItem(st, DARK_MODE, BooleanToString(new)) ELSE st

\* the preference state after the first render of a session that finds the
\* store st: both lazy initialisers, then both persisting effects at mount
FirstPreferences(st) ==
    LET dm == loadDarkMode(st)
        eh == loadEditorHeight(st)
    IN  [ darkMode |-> dm, editorHeight |-> eh,
          storage |-> setItem(setItem(st, DARK_MODE, BooleanToString(dm)),
                              EDITOR_HEIGHT, NumberToString(eh)) ]

EmptyStorage == [k \in StorageKeys |-> Null]

\* what a session can find under the height key: nothing, '', text without
\* digits, numbers under, at and over the minimum, a number with a unit
StoredHeights ==
    { Null, Item(<< >>), Item(<< "a", "b", "c" >>), Item(<< "9", "9" >>),
      Item(<< "1", "0", "0" >>), Item(<< "3", "0", "0" >>),
      Item(<< "1", "5", "0", "p", "x" >>), Item(<< " ", "1", "2", "0" >>),
      Item(<< "-", "5", "0", "0" >>) }

StoredDarkModes ==
    { Null, Item(BooleanToString(TRUE)), Item(BooleanToString(FALSE)),
      Item(<< "T", "R", "U", "E" >>), Item(<< "1" >>) }

InitialStorages ==
    { [k \in StorageKeys |-> IF k = DARK_MODE THEN d ELSE h] :
        d \in StoredDarkModes, h \in StoredHeights }

\* ------------------------------- the earlier configuration: its preferences
\* STORAGE_KEYS of the state-based App
DIFF_STYLE == "live-diff-diff-style"
LINE_DIFF_TYPE == "live-diff-line-diff-type"
SHOW_BACKGROUNDS == "live-diff-show-backgrounds"
WRAP_TEXT == "live-diff-wrap-text"
SHOW_LINE_NUMBERS == "live-diff-show-line-numbers"
SettingKeys ==
    {DIFF_STYLE, LINE_DIFF_TYPE, SHOW_BACKGROUNDS, WRAP_TEXT, SHOW_LINE_NUMBERS}

\* the strings of type DiffStyle
Split == << "s", "p", "l", "i", "t" >>
Unified == << "u", "n", "i", "f", "i", "e", "d" >>
DiffStyles == {Split, Unified}

\* the strings a lineDiffType can be
WordAlt == << "w", "o", "r", "d", "-", "a", "l", "t" >>
Word == << "w", "o", "r", "d" >>
CharDiff == << "c", "h", "a", "r" >>
NoDiff == << "n", "o", "n", "e" >>
LineDiffTypes == {WordAlt, Word, CharDiff, NoDiff}

\* stored || '': null and '' both give ''
OrEmpty(stored) == IF stored.present THEN stored.value ELSE << >>

\* faulty variant: the stored string is taken whenever there is one
loadLineDiffTypeUnchecked(st) ==
    LET stored == getItem(st, LINE_DIFF_TYPE)
    IN  IF stored.present THEN stored.value ELSE WordAlt

\* useState(lazy) of diffStyle
loadDiffStyle(st) ==
    LET stored == getItem(st, DIFF_STYLE)
    IN  IF stored = Item(Unified) THEN Unified ELSE Split

\* useState(lazy) of lineDiffType
loadLineDiffType(st) ==
    LET stored == getItem(st, LINE_DIFF_TYPE)
    IN  IF OrEmpty(stored) \in LineDiffTypes THEN stored.value ELSE WordAlt

\* useState(lazy) of showBackgrounds, wrapText, showLineNumbers
loadToggle(st, key) ==
    LET stored == getItem(st, key)
    IN  stored # Item(BooleanToString(FALSE))

\* the effects on [diffStyle] and [lineDiffType]: the string itself is stored
persistString(st, key, old, new) ==
    IF new # old THEN setItem(st, key, new) ELSE st

\* the effects on [showBackgrounds], [wrapText], [showLineNumbers]
persistToggle(st, key, old, new) ==
    IF new # old THEN setItem(st, key, BooleanToString(new)) ELSE st

\* the five lazy initialisers of a session that finds the store st
loadSettings(st) ==
    [ diffStyle |-> loadDiffStyle(st),
      lineDiffType |-> loadLineDiffType(st),
      showBackgrounds |-> loadToggle(st, SHOW_BACKGROUNDS),
      wrapText |-> loadToggle(st, WRAP_TEXT),
      showLineNumbers |-> loadToggle(st, SHOW_LINE_NUMBERS) ]

\* the five persisting effects, each run at mount
saveSettings(st, v) ==
    [ k \in SettingKeys |->
        IF k = DIFF_STYLE THEN Item(v.diffStyle)
        ELSE IF k = LINE_DIFF_TYPE THEN Item(v.lineDiffType)
        ELSE IF k = SHOW_BACKGROUNDS THEN Item(BooleanToString(v.showBackgrounds))
        ELSE IF k = WRAP_TEXT THEN Item(BooleanToString(v.wrapText))
        ELSE Item(BooleanToString(v.showLineNumbers)) ]

\* what a session can find under the style key
StoredDiffStyles ==
    { Null, Item(Unified), Item(Split), Item(<< >>),
      Item(<< "U", "n", "i", "f", "i", "e", "d" >>),
      Item(Unified \o << " " >>) }

\* what a session can find under the granularity key
StoredLineDiffTypes ==
    { Null, Item(WordAlt), Item(Word), Item(CharDiff), Item(NoDiff),
      Item(<< >>), Item(<< "w", "o", "r", "d", "s" >>) }

\* what a session can find under a toggle key
StoredToggles ==
    { Null, Item(BooleanToString(TRUE)), Item(BooleanToString(FALSE)),
      Item(<< "F", "a", "l", "s", "e" >>), Item(<< "0" >>) }

\* the stores a session can find: each key is tried with every stored string
\* while the other keys are absent, and the three toggles also together
InitialSettingStorages ==
    LET Absent == [k \in SettingKeys |-> Null]
    IN  { [Absent EXCEPT ![DIFF_STYLE] = d] : d \in StoredDiffStyles }
        \cup { [Absent EXCEPT ![LINE_DIFF_TYPE] = l] : l \in StoredLineDiffTypes }
        \cup { [Absent EXCEPT ![SHOW_BACKGROUNDS] = b, ![WRAP_TEXT] = w,
                              ![SHOW_LINE_NUMBERS] = n] :
                 b \in StoredToggles, w \in StoredToggles, n \in StoredToggles }

\* ------------------- the earlier configuration: the prop-driven widget
\* the widget as the repository carries it: one instance owning the editors
\* and the diff viewer ("combined"), an instance per mode ("modes"), and an
\* instance per mode whose diff sync is skipped while both texts are empty
Variants == {"combined", "modes", "modesGuarded"}

\* mode: 'editors' | 'diff'
Insts == {"editors", "diff"}

\* what the user can leave in an editor: Monaco keeps one kind of line end
EditedTexts == { << >>, << "a" >>, << "b", "\n" >> }

\* what a dropped file can hold: nothing, no line end, one kind of line
\* end, lone carriage returns, mixed line ends
DroppedTexts ==
    { << >>, << "a" >>, << "b", "\n" >>, << "a", "\r" >>,
      << "a", "\r", "\n", "b", "\n" >> }

WidgetLanguages == {"plaintext", "javascript"}

\* line ends of a text, as Monaco's text buffer builder counts them
CRLFCount(t) ==
    Cardinality({i \in 1..(Len(t) - 1) : t[i] = "\r" /\ t[i + 1] = "\n"})
CRCount(t) ==
    Cardinality({i \in 1..Len(t) :
                   t[i] = "\r" /\ (i = Len(t) \/ t[i + 1] # "\n")})
LFCount(t) ==
    Cardinality({i \in 1..Len(t) : t[i] = "\n" /\ (i = 1 \/ t[i - 1] # "\r")})

\* the line end a model takes: '\r\n' if more than half of the line ends
\* carry a carriage return, else '\n'
ModelEOL(t) ==
    IF 2 * (CRCount(t) + CRLFCount(t)) > CRCount(t) + LFCount(t) + CRLFCount(t)
    THEN << "\r", "\n" >> ELSE << "\n" >>

\* replace(/\r\n|\r|\n/g, eol)
RECURSIVE ReplaceEOL(_, _)
ReplaceEOL(t, eol) ==
    IF t = << >> THEN << >>
    ELSE IF Len(t) > 1 /\ t[1] = "\r" /\ t[2] = "\n"
         THEN eol \o ReplaceEOL(SubSeq(t, 3, Len(t)), eol)
    ELSE IF t[1] \in {"\r", "\n"} THEN eol \o ReplaceEOL(Tail(t), eol)
    ELSE << t[1] >> \o ReplaceEOL(Tail(t), eol)

\* getValue() after createModel(t) or setValue(t): every line end of t is
\* replaced by the model's line end
Normalize(t) == ReplaceEOL(t, ModelEOL(t))

\* the counters of one task
NoTask ==
    [ notifs |-> 0, setValues |-> 0, editorSetValues |-> 0, rounds |-> 0,
      settled |-> TRUE, usedDisposed |-> FALSE ]

NoRefs == [i \in Insts |-> [n \in Names |-> 0]]

isModelDisposed(w, id) == w.models[id].disposeCalls > 0

\* monaco.editor.createModel(original | modified, monacoLang) into the ref
createModel(w, inst, n) ==
    LET id == w.nextId
        m == [ text |-> Normalize(w.content[n]), lang |-> w.language,
               name |-> n, inst |-> inst, disposeCalls |-> 0,
               listening |-> FALSE, listenerDisposeCalls |-> 0 ]
    IN  [w EXCEPT !.models = w.models @@ (id :> m),
                  !.ref[inst][n] = id,
                  !.nextId = id + 1]

\* d = model.onDidChangeContent(() => onChange(model.getValue() ?? ''))
onDidChangeContent(w, inst, n) ==
    [w EXCEPT !.models[w.ref[inst][n]].listening = TRUE]

\* the listener: the setter receives getValue() of the model
onChange(w, id) ==
    [w EXCEPT !.task.notifs = @ + 1,
              !.pending[w.models[id].name] = w.models[id].text]

\* model.setValue(t): the text is replaced and the change listeners run
modelSetValue(w, id, t) ==
    LET w1 == [w EXCEPT !.models[id].text = Normalize(t),
                        !.task.setValues = @ + 1,
                        !.task.editorSetValues =
                            IF w.models[id].inst = "editors" THEN @ + 1 ELSE @]
    IN  IF w.models[id].listening THEN onChange(w1, id) ELSE w1

\* faulty variant: the model is written whether or not its text differs
syncModelUnguarded(w, inst, n) ==
    LET id == w.ref[inst][n]
    IN  IF id = 0 THEN w
        ELSE IF isModelDisposed(w, id) THEN [w EXCEPT !.task.usedDisposed = TRUE]
        ELSE modelSetValue(w, id, w.content[n])

\* if (ref.current && ref.current.getValue() !== prop) ref.current.setValue(prop)
syncModel(w, inst, n) ==
    LET id == w.ref[inst][n]
    IN  IF id = 0 THEN w
        ELSE IF isModelDisposed(w, id) THEN [w EXCEPT !.task.usedDisposed = TRUE]
        ELSE IF w.models[id].text # w.content[n] THEN modelSetValue(w, id, w.content[n])
        ELSE w

\* useMemo(() => !original && !modified)
isEmpty(w) == w.content["original"] = << >> /\ w.content["modified"] = << >>

\* the sync effect for editors mode, on [original, modified, mode]
syncEditors(w) ==
    IF "editors" \in w.mounted
    THEN syncModel(syncModel(w, "editors", "original"), "editors", "modified")
    ELSE w

\* faulty variant: only the original buffer of the diff viewer is synced
syncDiffOriginalOnly(w) ==
    IF "diff" \in w.mounted /\ ~(w.variant = "modesGuarded" /\ isEmpty(w))
    THEN syncModel(w, "diff", "original")
    ELSE w

\* the sync effect for diff mode, on [original, modified, mode]
syncDiff(w) ==
    IF "diff" \in w.mounted /\ ~(w.variant = "modesGuarded" /\ isEmpty(w))
    THEN syncModel(syncModel(w, "diff", "original"), "diff", "modified")
    ELSE w

\* the sync effects of one commit, in the order of the tree
SyncEffects(w) == syncDiff(syncEditors(w))

\* the commits that follow a change of the content state: the effects run
\* with the committed content as props; a setter called by a listener with
\* another text schedules the next commit, with the same text none
RECURSIVE Settle(_, _)
Settle(w, fuel) ==
    LET r == SyncEffects(w)
    IN  IF r.pending = r.content THEN r
        ELSE IF fuel = 0 THEN [r EXCEPT !.task.settled = FALSE]
        ELSE Settle([r EXCEPT !.content = r.pending, !.task.rounds = @ + 1],
                    fuel - 1)

\* a setter of the content state called by a handler: a call with the
\* current value is dropped, any other is committed and the effects run
setContent(w, new) ==
    IF new = w.content THEN w
    ELSE Settle([w EXCEPT !.content = new, !.pending = new, !.task.rounds = 1],
                MaxRounds)

\* the init effect of an instance: two models from the props and, in
\* editors mode, a change listener on each
initEffect(w, inst) ==
    LET made == createModel(createModel(w, inst, "original"), inst, "modified")
    IN  IF inst = "editors"
        THEN onDidChangeContent(onDidChangeContent(made, inst, "original"),
                                inst, "modified")
        ELSE made

\* d.dispose() of the listener the init effect attached to the model of n
disposeListener(w, inst, n) ==
    LET id == w.ref[inst][n]
    IN  [w EXCEPT !.models[id].listening = FALSE,
                  !.models[id].listenerDisposeCalls = @ + 1]

\* ref.current?.dispose(): a disposed model has no text any more
disposeRef(w, inst, n) ==
    LET id == w.ref[inst][n]
    IN  IF id = 0 THEN w
        ELSE [w EXCEPT !.models[id].disposeCalls = @ + 1,
                       !.models[id].text = << >>]

\* faulty variant: the cleanup disposes the listeners and leaves the models
cleanupKeepsModels(w, inst) ==
    IF inst = "editors"
    THEN disposeListener(disposeListener(w, inst, "original"), inst, "modified")
    ELSE w

\* the cleanup the init effect returned
cleanup(w, inst) ==
    LET quiet == IF inst = "editors"
                 THEN disposeListener(disposeListener(w, inst, "original"),
                                      inst, "modified")
                 ELSE w
    IN  disposeRef(disposeRef(quiet, inst, "original"), inst, "modified")

\* an instance mounts: its init effect, then its sync effect, then the
\* commits a listener called by that sync effect schedules
mountInstance(w, inst) ==
    LET made == initEffect(w, inst)
        in == [made EXCEPT !.mounted = @ \cup {inst}]
        r == IF inst = "editors" THEN syncEditors(in) ELSE syncDiff(in)
    IN  IF r.pending = r.content THEN r
        ELSE Settle([r EXCEPT !.content = r.pending, !.task.rounds = @ + 1],
                    MaxRounds)

\* an instance unmounts: the cleanup of its init effect
unmountInstance(w, inst) ==
    [cleanup(w, inst) EXCEPT !.mounted = @ \ {inst}]

\* monaco.editor.setModelLanguage(m, monacoLang) for a ref that is not null
syncModelLanguage(w, inst, n) ==
    LET id == w.ref[inst][n]
    IN  IF id = 0 THEN w
        ELSE IF isModelDisposed(w, id) THEN [w EXCEPT !.task.usedDisposed = TRUE]
        ELSE [w EXCEPT !.models[id].lang = w.language]

\* the language effect of every mounted instance, on [monacoLang]
syncLanguage(w) ==
    LET One(v, inst) ==
            IF inst \in v.mounted
            THEN syncModelLanguage(syncModelLanguage(v, inst, "original"),
                                   inst, "modified")
            ELSE v
    IN  One(One(w, "editors"), "diff")

\* handleSwap of the state-based App
swapContent(w) ==
    setContent(w, [original |-> w.content["modified"],
                   modified |-> w.content["original"]])

\* handleClear of the state-based App
clearContent(w) == setContent(w, [n \in Names |-> << >>])

\* reader.onload of a file dropped on the panel of n: if (text) setContent(text)
fileDrop(w, n, t) ==
    IF t # << >> THEN setContent(w, [w.content EXCEPT ![n] = t]) ELSE w

\* the user changes the text of the editor of n to t: the model changes,
\* its listener passes getValue() to the setter
userEdit(w, n, t) ==
    LET id == w.ref["editors"][n]
        typed == onChange([w EXCEPT !.models[id].text = t], id)
    IN  setContent(typed, typed.pending)

\* the widget state before the first render of the variant v
BeforeWidgets(v) ==
    [ variant |-> v, content |-> [n \in Names |-> << >>],
      pending |-> [n \in Names |-> << >>], language |-> "plaintext",
      mounted |-> {}, ref |-> NoRefs, models |-> << >>, nextId |-> 1,
      task |-> NoTask ]

\* the first render: the editors and the diff viewer mount
FirstWidgets(v) ==
    mountInstance(mountInstance(BeforeWidgets(v), "editors"), "diff")

\* ------------------------------------------------------------------- Init
BeforeFirstRender ==
    [ language |-> "auto", detectedLanguage |-> "plaintext",
      isFullscreen |-> FALSE, mounted |-> {},
      modelRef |-> [n \in Names |-> 0], disposed |-> [n \in Names |-> FALSE],
      text |-> NoText, modelLang |-> [n \in Names |-> "plaintext"],
      created |-> [n \in Names |-> 0], nextId |-> 1,
      timer |-> 0, pending |-> {}, listeners |-> {},
      notifs |-> << >>, threw |-> FALSE, run |-> NoRun,
      textAtTrigger |-> NoText, runsSinceTrigger |-> 0, burst |-> 0 ]

\* the first render of App and its effects
FirstRender(s) ==
    LET acquired == AcquireModel(AcquireModel(s, "original"), "modified")
        body == EffectBody(ReconcileWidgets(acquired))
    IN  [body EXCEPT !.modelLang = [n \in Names |-> monacoLang(body)]]

Set(s, op) ==
    /\ language = s.language
    /\ detectedLanguage = s.detectedLanguage
    /\ isFullscreen = s.isFullscreen
    /\ mounted = s.mounted
    /\ modelRef = s.modelRef
    /\ disposed = s.disposed
    /\ text = s.text
    /\ modelLang = s.modelLang
    /\ created = s.created
    /\ nextId = s.nextId
    /\ timer = s.timer
    /\ pending = s.pending
    /\ listeners = s.listeners
    /\ lastOp = op
    /\ notifs = s.notifs
    /\ threw = s.threw
    /\ lastRun = s.run
    /\ textAtTrigger = s.textAtTrigger
    /\ runsSinceTrigger = s.runsSinceTrigger
    /\ burst = s.burst

\* the first render of a session that finds the store st in a viewport vh
Session(st, vh) ==
    /\ Set(FirstRender(BeforeFirstRender), "init")
    /\ disposals = 0
    /\ appMounted = TRUE
    /\ darkMode = FirstPreferences(st).darkMode
    /\ editorHeight = FirstPreferences(st).editorHeight
    /\ storage = FirstPreferences(st).storage
    /\ storageAtLoad = st
    /\ isResizing = FALSE
    /\ innerHeight = vh
    /\ clientY = 0

\* the first render of a session of the earlier configuration that finds
\* the store st: the lazy initialisers, then the persisting effects at mount
SettingSession(st) ==
    /\ diffStyle = loadSettings(st).diffStyle
    /\ lineDiffType = loadSettings(st).lineDiffType
    /\ showBackgrounds = loadSettings(st).showBackgrounds
    /\ wrapText = loadSettings(st).wrapText
    /\ showLineNumbers = loadSettings(st).showLineNumbers
    /\ settingStorage = saveSettings(st, loadSettings(st))
    /\ settingStorageAtLoad = st

\* the widget state is the record w
SetWidgets(w) ==
    /\ variant = w.variant
    /\ contentState = w.content
    /\ wLanguage = w.language
    /\ wMounted = w.mounted
    /\ wRef = w.ref
    /\ wModels = w.models
    /\ wNextId = w.nextId
    /\ wTask = w.task

\* the first render of the earlier configuration built with the variant v
WidgetSession(v) == SetWidgets(FirstWidgets(v))

EarlierSession ==
    SettingSession([k \in SettingKeys |-> Null]) /\ WidgetSession("modes")

Init == Session(EmptyStorage, ViewportStep * MaxViewports) /\ EarlierSession

Commit(s, op) ==
    /\ language' = s.language
    /\ detectedLanguage' = s.detectedLanguage
    /\ isFullscreen' = s.isFullscreen
    /\ mounted' = s.mounted
    /\ modelRef' = s.modelRef
    /\ disposed' = s.disposed
    /\ text' = s.text
    /\ modelLang' = s.modelLang
    /\ created' = s.created
    /\ nextId' = s.nextId
    /\ timer' = s.timer
    /\ pending' = s.pending
    /\ listeners' = s.listeners
    /\ lastOp' = op
    /\ notifs' = s.notifs
    /\ threw' = s.threw
    /\ lastRun' = s.run
    /\ UNCHANGED earlierVars
    /\ textAtTrigger' = s.textAtTrigger
    /\ runsSinceTrigger' = s.runsSinceTrigger
    /\ burst' = s.burst

\* ---------------------------------------------------------------- actions
\* the user types in the editor showing the shared model n
Edit ==
    \E n \in Names, t \in Text :
        /\ appMounted
        /\ "editors" \in mounted
        /\ ~disposed[n]
        /\ t # text[n]
        /\ Commit(Notify([Cur EXCEPT !.text[n] = t], n), "edit")
        /\ UNCHANGED << disposals, appMounted, uiVars >>

Swap ==
    /\ appMounted
    /\ Commit(handleSwap(Cur), "handleSwap")
    /\ UNCHANGED << disposals, appMounted, uiVars >>

Clear ==
    /\ appMounted
    /\ Commit(handleClear(Cur), "handleClear")
    /\ UNCHANGED << disposals, appMounted, uiVars >>

ClearOriginal ==
    /\ appMounted
    /\ "editors" \in mounted
    /\ Commit(handleClearOriginal(Cur), "handleClearOriginal")
    /\ UNCHANGED << disposals, appMounted, uiVars >>

ClearModified ==
    /\ appMounted
    /\ "editors" \in mounted
    /\ Commit(handleClearModified(Cur), "handleClearModified")
    /\ UNCHANGED << disposals, appMounted, uiVars >>

SelectLanguage ==
    \E l \in SelectableLanguages :
        /\ appMounted
        /\ Commit(setLanguage(Cur, l), "setLanguage")
        /\ UNCHANGED << disposals, appMounted, uiVars >>

ToggleFullscreen ==
    /\ appMounted
    /\ Commit(toggleFullscreen(Cur), "toggleFullscreen")
    /\ UNCHANGED << disposals, appMounted, uiVars >>

\* App renders again with its state unchanged
Render ==
    /\ appMounted
    /\ Commit(RenderApp(Cur, Cur), "render")
    /\ UNCHANGED << disposals, appMounted, uiVars >>

\* the browser runs a pending timer; a state update of an unmounted
\* component is dropped by React
TimerFire ==
    \E id \in pending, outcome \in ClassifierOutcomes(languageSubset) :
        /\ appMounted
        /\ Commit(RunTimer(Cur, id, outcome), "timer")
        /\ UNCHANGED << disposals, appMounted, uiVars >>

\* a shared model is disposed from outside App
DisposeModel ==
    \E n \in Names :
        /\ disposals < MaxDispose
        /\ ~disposed[n]
        /\ Commit([Cur EXCEPT !.disposed[n] = TRUE], "dispose")
        /\ disposals' = disposals + 1
        /\ UNCHANGED << appMounted, uiVars >>

\* App is unmounted: React unmounts the widgets and runs the effect cleanups
AppUnmount ==
    /\ appMounted
    /\ Commit(unmountApp(Cur), "unmount")
    /\ appMounted' = FALSE
    /\ UNCHANGED << disposals, uiVars >>

Next ==
    \/ Edit
    \/ Swap
    \/ Clear
    \/ ClearOriginal
    \/ ClearModified
    \/ SelectLanguage
    \/ ToggleFullscreen
    \/ Render
    \/ TimerFire
    \/ DisposeModel
    \/ AppUnmount

Spec == Init /\ [][Next]_vars
\* faulty variant: the detection effect has no dependency list and runs again
\* after every render
AfterHeightRerunsDetection(h) ==
    IF h # editorHeight THEN EffectBody(EffectCleanup(RenderApp(Cur, Cur))) ELSE Cur
\* ------------------------------------------- preference and resize actions
\* App state after a task that set editorHeight to h: a changed height
\* renders App again
AfterHeight(h) == IF h # editorHeight THEN RenderApp(Cur, Cur) ELSE Cur

\* mousedown on the resize handle, which is rendered outside fullscreen
StartResizing ==
    /\ appMounted
    /\ ~isFullscreen
    /\ Commit(Cur, "startResizing")
    /\ isResizing' = TRUE
    /\ clientY' = 0
    /\ UNCHANGED << disposals, appMounted, darkMode, editorHeight, innerHeight,
                    storage, storageAtLoad >>

\* mouseup anywhere in the window
StopResizing ==
    /\ appMounted
    /\ Commit(Cur, "stopResizing")
    /\ isResizing' = FALSE
    /\ clientY' = 0
    /\ UNCHANGED << disposals, appMounted, darkMode, editorHeight, innerHeight,
                    storage, storageAtLoad >>

\* mousemove anywhere in the window, with the effect on [editorHeight]
MouseMove ==
    \E y \in PointerYs :
        LET h == handleResize(isResizing, editorHeight, innerHeight, y)
        IN  /\ appMounted
            /\ Commit(AfterHeight(h), "handleResize")
            /\ editorHeight' = h
            /\ storage' = persistEditorHeight(storage, editorHeight, h)
            /\ clientY' = y
            /\ UNCHANGED << disposals, appMounted, darkMode, isResizing,
                            innerHeight, storageAtLoad >>

\* dblclick on the resize handle; the browser delivers it after the mouseup
\* of the second click, which has run stopResizing
DoubleClick ==
    LET h == resetEditorHeight(editorHeight)
    IN  /\ appMounted
        /\ ~isFullscreen
        /\ ~isResizing
        /\ Commit(AfterHeight(h), "resetEditorHeight")
        /\ editorHeight' = h
        /\ storage' = persistEditorHeight(storage, editorHeight, h)
        /\ clientY' = 0
        /\ UNCHANGED << disposals, appMounted, darkMode, isResizing,
                        innerHeight, storageAtLoad >>

\* the dark mode button of the header, with the effect on [darkMode]
ToggleDarkMode ==
    LET d == toggleDarkMode(darkMode)
    IN  /\ appMounted
        /\ Commit(RenderApp(Cur, Cur), "toggleDarkMode")
        /\ darkMode' = d
        /\ storage' = persistDarkMode(storage, darkMode, d)
        /\ clientY' = 0
        /\ UNCHANGED << disposals, appMounted, editorHeight, isResizing,
                        innerHeight, storageAtLoad >>

\* the user resizes the browser window; App listens to no resize event
ResizeWindow ==
    \E vh \in ViewportHeights :
        /\ vh # innerHeight
        /\ Commit(Cur, "resizeWindow")
        /\ innerHeight' = vh
        /\ clientY' = 0
        /\ UNCHANGED << disposals, appMounted, darkMode, editorHeight,
                        isResizing, storage, storageAtLoad >>

\* the page is loaded again: a new session starts from what localStorage holds
Reload ==
    /\ Commit(FirstRender(BeforeFirstRender), "reload")
    /\ appMounted' = TRUE
    /\ darkMode' = FirstPreferences(storage).darkMode
    /\ editorHeight' = FirstPreferences(storage).editorHeight
    /\ storage' = FirstPreferences(storage).storage
    /\ storageAtLoad' = storage
    /\ isResizing' = FALSE
    /\ clientY' = 0
    /\ UNCHANGED << disposals, innerHeight >>

\* a session may find any store, in a viewport of any height
InitPrefs ==
    /\ \E st \in InitialStorages, vh \in ViewportHeights : Session(st, vh)
    /\ EarlierSession

NextPrefs ==
    \/ StartResizing
    \/ StopResizing
    \/ MouseMove
    \/ DoubleClick
    \/ ToggleDarkMode
    \/ ResizeWindow
    \/ Reload

SpecPrefs == InitPrefs /\ [][NextPrefs]_vars

\* ------------------------------- buffers and layout in one session of App
\* the buffer tasks and the layout tasks of one session, interleaved
NextAll ==
    \/ Edit
    \/ Swap
    \/ Clear
    \/ ClearOriginal
    \/ ClearModified
    \/ SelectLanguage
    \/ TimerFire
    \/ StartResizing
    \/ StopResizing
    \/ MouseMove
    \/ DoubleClick
    \/ ToggleDarkMode

SpecAll == Init /\ [][NextAll]_vars

\* ----------------------------------------------- long texts and sampling
\* number of characters a pasted text can have beyond its long run
MaxTail == 1

\* n times the character c
Repeat(c, n) == [i \in 1..n |-> c]

\* texts at least SAMPLE_LEN long: a run of one character that fills the
\* sample, then nothing or MaxTail more characters
LongTexts ==
    { Repeat(c, SAMPLE_LEN) \o t :
        c \in Chars, t \in {<< >>} \cup [1..MaxTail -> Chars] }

\* the user pastes a long text into the editor showing the shared model n
Paste ==
    \E n \in Names, t \in LongTexts :
        /\ appMounted
        /\ "editors" \in mounted
        /\ ~disposed[n]
        /\ t # text[n]
        /\ Commit(Notify([Cur EXCEPT !.text[n] = t], n), "paste")
        /\ UNCHANGED << disposals, appMounted, uiVars >>

NextSample ==
    \/ Paste
    \/ TimerFire

SpecSample == Init /\ [][NextSample]_vars

\* --------------------- the earlier configuration: its preference actions
\* a task of the earlier configuration leaves the current App alone
EarlierTask(op) ==
    /\ lastOp' = op
    /\ UNCHANGED << bufVars, disposals, appMounted, uiVars >>

\* a preference task leaves the content and the widgets alone
SettingTask(op) == EarlierTask(op) /\ UNCHANGED widgetVars

\* Toolbar: onDiffStyleChange('split') / onDiffStyleChange('unified')
SetDiffStyle ==
    \E v \in DiffStyles :
        /\ diffStyle' = v
        /\ settingStorage' = persistString(settingStorage, DIFF_STYLE, diffStyle, v)
        /\ SettingTask("setDiffStyle")
        /\ UNCHANGED << lineDiffType, showBackgrounds, wrapText,
                        showLineNumbers, settingStorageAtLoad >>

\* Toolbar, SettingsModal: onLineDiffTypeChange(e.target.value) of a select
\* whose options are the four granularities
SetLineDiffType ==
    \E v \in LineDiffTypes :
        /\ lineDiffType' = v
        /\ settingStorage' =
               persistString(settingStorage, LINE_DIFF_TYPE, lineDiffType, v)
        /\ SettingTask("setLineDiffType")
        /\ UNCHANGED << diffStyle, showBackgrounds, wrapText, showLineNumbers,
                        settingStorageAtLoad >>

\* onToggleBackgrounds
ToggleBackgrounds ==
    /\ showBackgrounds' = ~showBackgrounds
    /\ settingStorage' = persistToggle(settingStorage, SHOW_BACKGROUNDS,
                                       showBackgrounds, ~showBackgrounds)
    /\ SettingTask("toggleBackgrounds")
    /\ UNCHANGED << diffStyle, lineDiffType, wrapText, showLineNumbers,
                    settingStorageAtLoad >>

\* onToggleWrap
ToggleWrap ==
    /\ wrapText' = ~wrapText
    /\ settingStorage' = persistToggle(settingStorage, WRAP_TEXT,
                                       wrapText, ~wrapText)
    /\ SettingTask("toggleWrap")
    /\ UNCHANGED << diffStyle, lineDiffType, showBackgrounds, showLineNumbers,
                    settingStorageAtLoad >>

\* onToggleLineNumbers
ToggleLineNumbers ==
    /\ showLineNumbers' = ~showLineNumbers
    /\ settingStorage' = persistToggle(settingStorage, SHOW_LINE_NUMBERS,
                                       showLineNumbers, ~showLineNumbers)
    /\ SettingTask("toggleLineNumbers")
    /\ UNCHANGED << diffStyle, lineDiffType, showBackgrounds, wrapText,
                    settingStorageAtLoad >>

\* the page is loaded again: the lazy initialisers read what the store holds
ReloadSettings ==
    /\ diffStyle' = loadSettings(settingStorage).diffStyle
    /\ lineDiffType' = loadSettings(settingStorage).lineDiffType
    /\ showBackgrounds' = loadSettings(settingStorage).showBackgrounds
    /\ wrapText' = loadSettings(settingStorage).wrapText
    /\ showLineNumbers' = loadSettings(settingStorage).showLineNumbers
    /\ settingStorage' = saveSettings(settingStorage, loadSettings(settingStorage))
    /\ settingStorageAtLoad' = settingStorage
    /\ SettingTask("reloadSettings")

\* a session may find any store
InitSettings ==
    /\ Session(EmptyStorage, ViewportStep * MaxViewports)
    /\ \E st \in InitialSettingStorages : SettingSession(st)
    /\ WidgetSession("modes")

NextSettings ==
    \/ SetDiffStyle
    \/ SetLineDiffType
    \/ ToggleBackgrounds
    \/ ToggleWrap
    \/ ToggleLineNumbers
    \/ ReloadSettings

SpecSettings == InitSettings /\ [][NextSettings]_vars

\* ----------------- the earlier configuration: content and widget actions
\* a content or widget task leaves the preferences alone
WidgetTask(op) == EarlierTask(op) /\ UNCHANGED settingVars

\* the widget state at the start of a task
W ==
    [ variant |-> variant, content |-> contentState, pending |-> contentState,
      language |-> wLanguage, mounted |-> wMounted, ref |-> wRef,
      models |-> wModels, nextId |-> wNextId, task |-> NoTask ]

PutWidgets(w, op) ==
    /\ variant' = w.variant
    /\ contentState' = w.content
    /\ wLanguage' = w.language
    /\ wMounted' = w.mounted
    /\ wRef' = w.ref
    /\ wModels' = w.models
    /\ wNextId' = w.nextId
    /\ wTask' = w.task
    /\ WidgetTask(op)

\* the user types in the editor of n
UserEdit ==
    \E n \in Names, t \in EditedTexts :
        /\ "editors" \in wMounted
        /\ wModels[wRef["editors"][n]].text # t
        /\ PutWidgets(userEdit(W, n, t), "userEdit")

\* a file is dropped on the panel of n and read
FileDrop ==
    \E n \in Names, t \in DroppedTexts :
        /\ variant # "combined"
        /\ "editors" \in wMounted
        /\ PutWidgets(fileDrop(W, n, t), "fileDrop")

SwapContent == PutWidgets(swapContent(W), "swapContent")

ClearContent == PutWidgets(clearContent(W), "clearContent")

\* the language given to the widgets changes
SelectWidgetLanguage ==
    \E l \in WidgetLanguages :
        /\ l # wLanguage
        /\ PutWidgets(syncLanguage([W EXCEPT !.language = l]), "setWidgetLanguage")

\* an instance mounts; the combined widget mounts as a whole
MountWidget ==
    \/ \E inst \in Insts :
        /\ variant # "combined"
        /\ inst \notin wMounted
        /\ wNextId + 1 <= MaxModels
        /\ PutWidgets(mountInstance(W, inst), "mountWidget")
    \/ /\ variant = "combined"
       /\ wMounted = {}
       /\ wNextId + 3 <= MaxModels
       /\ PutWidgets(mountInstance(mountInstance(W, "editors"), "diff"),
                     "mountWidget")

\* an instance unmounts; the combined widget unmounts as a whole
UnmountWidget ==
    \/ \E inst \in Insts :
        /\ variant # "combined"
        /\ inst \in wMounted
        /\ PutWidgets(unmountInstance(W, inst), "unmountWidget")
    \/ /\ variant = "combined"
       /\ wMounted # {}
       /\ PutWidgets(unmountInstance(unmountInstance(W, "editors"), "diff"),
                     "unmountWidget")

\* the earlier configuration may be built with any of the widgets
InitWidgets ==
    /\ Session(EmptyStorage, ViewportStep * MaxViewports)
    /\ SettingSession([k \in SettingKeys |-> Null])
    /\ \E v \in Variants : WidgetSession(v)

NextWidgets ==
    \/ UserEdit
    \/ FileDrop
    \/ SwapContent
    \/ ClearContent
    \/ SelectWidgetLanguage
    \/ MountWidget
    \/ UnmountWidget

SpecWidgets == InitWidgets /\ [][NextWidgets]_vars

\* ----------------------------------------------------------------- claims
NotifCount(log, n) == Cardinality({i \in DOMAIN log : log[i].buf = n})

AllWhitespace(t) == \A i \in DOMAIN t : t[i] \in Whitespace

Swapped(t) == [original |-> t["modified"], modified |-> t["original"]]

\* the tasks in which App renders
RenderOps == {"render", "toggleFullscreen", "setLanguage", "timer"}

ClearOps == {"handleClear", "handleClearOriginal", "handleClearModified"}

\* C1: a buffer that is not disposed keeps its instance through every task,
\* no task but an outside disposal disposes it, no createModel call is made
\* for it, and the tasks that render App or mount and unmount the widgets
\* leave its text alone; createModel runs at most once per name and disposal.
C1_SharedModelsSurviveRenders ==
    /\ [](\A n \in Names : modelRef[n] # 0 /\ created[n] <= 1 + disposals)
    /\ [][\A n \in Names :
            ~disposed[n] =>
                /\ modelRef'[n] = modelRef[n]
                /\ created'[n] = created[n]
                /\ (lastOp' # "dispose" => ~disposed'[n])
                /\ (lastOp' \in RenderOps => text'[n] = text[n])]_vars

\* C1 witness: the editor pair was unmounted by fullscreen and has just been
\* mounted again; both buffers are the first instances and the text is kept
C1_Witness ==
    /\ lastOp = "toggleFullscreen"
    /\ ~isFullscreen
    /\ mounted = {"editors", "diff"}
    /\ text["original"] = << "a" >>
    /\ modelRef = [original |-> 1, modified |-> 2]
    /\ created = [n \in Names |-> 1]
    /\ disposals = 0

\* C2: between two detect() calls at most one timer callback runs, however
\* many changes the burst had, and the callback reads the buffers as they
\* were left by the last change of the burst.
C2_OneRunPerBurst ==
    /\ runsSinceTrigger <= 1
    /\ (lastRun.status \in {"blank", "classified"} => lastRun.read = textAtTrigger)

\* C2 witness: a burst of two or more triggers ended in one classifier call
\* on the final content, and no timer is left
C2_Witness ==
    /\ lastOp = "timer"
    /\ lastRun.status = "classified"
    /\ lastRun.burst >= 2
    /\ lastRun.read = text
    /\ text["modified"] = << "a" >>
    /\ runsSinceTrigger = 1
    /\ pending = {}

\* C3: a swap that does not throw exchanges the two texts, keeps both
\* instances, and emits exactly one change notification per buffer.
C3_SwapExchangesTexts ==
    [][(lastOp' = "handleSwap" /\ ~threw') =>
          /\ text'["original"] = text["modified"]
          /\ text'["modified"] = text["original"]
          /\ modelRef' = modelRef
          /\ disposed' = disposed
          /\ \A n \in Names : NotifCount(notifs', n) = 1]_vars

\* C3 witness: a swap of two different texts has happened
C3_Witness ==
    /\ lastOp = "handleSwap"
    /\ ~threw
    /\ text = [original |-> << "a" >>, modified |-> << " " >>]
    /\ Len(notifs) = 2

\* C4 (as claimed): every change notification of a swap sees either the
\* texts before the swap or the fully swapped texts.
C4_SwapObservedAtomically ==
    [][lastOp' = "handleSwap" =>
          \A i \in DOMAIN notifs' : notifs'[i].seen \in {text, Swapped(text)}]_vars

\* C5 (as claimed): a clear that writes the empty text to a buffer that is
\* already empty emits no change notification on that buffer.
C5_SameValueWriteIsSilent ==
    [][\A n \in Names :
          (lastOp' \in ClearOps /\ text[n] = << >> /\ text'[n] = << >>) =>
              NotifCount(notifs', n) = 0]_vars

C7_NoDetectionWhileConcrete ==
    /\ [](language # "auto" => pending = {} /\ listeners = {})
    /\ [][(language # "auto" /\ language' = language) =>
            /\ detectedLanguage' = detectedLanguage
            /\ lastRun'.status = "none"]_vars

\* C7 witness: a text was edited under a concrete selection
C7_Witness ==
    /\ lastOp = "edit"
    /\ language = "javascript"
    /\ text["original"] = << "a" >>
    /\ Len(notifs) = 1
    /\ pending = {}

\* C8: a timer callback finds the joined texts blank exactly when it does not
\* call the classifier, and then detectedLanguage is 'plaintext'; the
\* classifier is only given content that is not blank.
C8_BlankNeverClassified ==
    lastRun.status \in {"blank", "classified"} =>
        IF AllWhitespace(Substring0(lastRun.read["original"], SAMPLE_LEN)
                         \o << "\n" >>
                         \o Substring0(lastRun.read["modified"], SAMPLE_LEN))
        THEN lastRun.status = "blank" /\ detectedLanguage = "plaintext"
        ELSE lastRun.status = "classified" /\ ~AllWhitespace(lastRun.sample)

\* C8 witness: a callback ran on whitespace-only content after a language
\* had been detected
C8_Witness ==
    /\ lastOp = "timer"
    /\ lastRun.status = "blank"
    /\ lastRun.read["original"] = << " " >>
    /\ detectedLanguage = "plaintext"

\* C9: a callback that calls the classifier adopts the returned tag, or
\* 'plaintext' when the classifier throws or returns none; no exception
\* leaves the callback, and texts, selection, instances and listeners stay
\* as they were, with no timer added.
C9_ClassifierFallback ==
    [][(lastOp' = "timer" /\ lastRun'.status = "classified") =>
          /\ detectedLanguage' =
                 IF lastRun'.outcome \in {"throw", "none"}
                 THEN "plaintext" ELSE lastRun'.outcome
          /\ ~threw'
          /\ text' = text
          /\ language' = language
          /\ modelRef' = modelRef
          /\ listeners' = listeners
          /\ timer' = timer
          /\ pending' \subseteq pending]_vars

\* C9 witness: the classifier threw and the callback fell back to plaintext
C9_Witness ==
    /\ lastOp = "timer"
    /\ lastRun.status = "classified"
    /\ lastRun.outcome = "throw"
    /\ detectedLanguage = "plaintext"
    /\ ~threw

\* C10: detectedLanguage is always a catalog tag and never 'auto', it is
\* 'plaintext' after the first render, and the classifier is only called
\* with the catalog tags other than 'plaintext'.
C10_DetectedIsCatalogTag ==
    /\ detectedLanguage \in Catalog
    /\ detectedLanguage # "auto"
    /\ (lastOp = "init" => detectedLanguage = "plaintext")
    /\ (lastRun.status = "classified" =>
            /\ {lastRun.allowed[i] : i \in DOMAIN lastRun.allowed} = Catalog \ {"plaintext"}
            /\ \A i \in DOMAIN lastRun.allowed : lastRun.allowed[i] # "auto")

\* C10 witness: a tag of the catalog was detected under Automatic
C10_Witness ==
    /\ language = "auto"
    /\ detectedLanguage = "typescript"
    /\ lastRun.status = "classified"

\* C11: in every state, which is a state after a task's effects have run, the
\* language id of the original model and of the modified model both equal
\* toMonacoLanguage of the effective language (the selection, or the detected
\* tag when the selection is 'auto'); this covers models created again after
\* a disposal.
C11_BuffersCarryEffectiveLanguage ==
    \A n \in Names :
        modelLang[n] = toMonacoLanguage(effectiveLanguage(language, detectedLanguage))

\* C11 witness: the original model was disposed and created again while a
\* concrete language mapped to a non-plaintext id is in effect
C11_Witness ==
    /\ created["original"] = 2
    /\ ~disposed["original"]
    /\ toMonacoLanguage(effectiveLanguage(language, detectedLanguage)) # "plaintext"
    /\ modelLang["original"] # "plaintext"
    /\ modelLang["modified"] = modelLang["original"]

\* C12: at every moment at most one classification timer is pending, and it
\* is the one the running effect holds: scheduling a timer cancels the one
\* pending before it, and tearing the effect down (a concrete selection,
\* App unmount) leaves none pending.  Text changes, selection changes,
\* buffer re-creation and App unmount interleave freely.
C12_AtMostOneTimerPending ==
    /\ Cardinality(pending) <= 1
    /\ \A id \in pending : id = timer
    /\ (~appMounted => pending = {})
    /\ (language # "auto" => pending = {})

\* C12 witness: a second detect() call of one burst has replaced the timer of
\* the first, and exactly one timer is pending
C12_Witness ==
    /\ burst >= 2
    /\ lastOp = "edit"
    /\ Cardinality(pending) = 1
    /\ timer \in pending

\* the step of TimerFire, told by its guard and by the label it leaves: no
\* other action of Next sets lastOp to "timer"
TimerCallbackStep ==
    /\ appMounted
    /\ pending # {}
    /\ lastOp' = "timer"

\* a timer created by setTimeout and not cleared is run by the browser: the
\* callback step is weakly fair
SpecLive == Init /\ [][Next]_vars /\ WF_lastOp(TimerCallbackStep)

\* the pipeline is idle under 'auto' with both models live
IdleAuto ==
    /\ appMounted
    /\ language = "auto"
    /\ pending = {}
    /\ \A n \in Names : ~disposed[n]

\* C13: under 'auto', once a detection is scheduled (by a text change, or by
\* selecting 'auto') the pipeline comes back to idle: the timer fires or is
\* torn down.  Whenever the pipeline is idle with both models live, a
\* callback has run since the latest trigger and the texts it was triggered
\* for are the current texts; that callback read the current texts and set
\* detectedLanguage from them ('plaintext' for blank content), and no later
\* task changes detectedLanguage while the pipeline stays idle.
C13_DetectionSettles ==
    /\ [](appMounted /\ language = "auto" /\ pending # {} => <>(pending = {}))
    /\ [](IdleAuto => runsSinceTrigger >= 1 /\ textAtTrigger = text)
    /\ [][(lastOp' = "timer" /\ lastRun'.status \in {"blank", "classified"}) =>
            /\ pending' = {}
            /\ lastRun'.read = text'
            /\ lastRun'.sample = ContentToDetect(text'["original"], text'["modified"])
            /\ detectedLanguage' =
                   IF lastRun'.status = "blank" THEN "plaintext"
                   ELSE IF lastRun'.outcome \in {"throw", "none"} THEN "plaintext"
                   ELSE lastRun'.outcome]_vars
    /\ [][(IdleAuto /\ IdleAuto' /\ lastOp' # "timer") =>
            /\ detectedLanguage' = detectedLanguage
            /\ text' = text]_vars

\* C13 witness: after a burst of two triggers the single callback has run on
\* the final non-blank content, set a tag from it, and the pipeline is idle
C13_Witness ==
    /\ IdleAuto
    /\ lastOp = "timer"
    /\ lastRun.status = "classified"
    /\ lastRun.burst >= 2
    /\ lastRun.read = text
    /\ detectedLanguage = lastRun.outcome

\* the raw height of a pointer at clientY = y
RawHeight(y) == y - containerTop

\* C14: while the handle is dragged, every pointer move commits a height
\* decided by the raw height r = clientY - containerTop alone: the minimum
\* when r is under the minimum, else floor(innerHeight * 0.6) when r is over
\* that cap, else r itself; whatever the height was before, so that no move
\* made while dragging is ignored.
C14_MoveCommitsClampedHeight ==
    [][(lastOp' = "handleResize" /\ isResizing) =>
          editorHeight' =
              IF RawHeight(clientY') < MIN_EDITOR_HEIGHT THEN MIN_EDITOR_HEIGHT
              ELSE IF RawHeight(clientY') > maxHeight(innerHeight)
                   THEN maxHeight(innerHeight)
              ELSE RawHeight(clientY')]_vars

\* C14 witness: a move made while dragging, with a raw height over the cap of
\* a viewport whose cap is over the minimum, has committed the cap
C14_Witness ==
    /\ lastOp = "handleResize"
    /\ isResizing
    /\ maxHeight(innerHeight) > MIN_EDITOR_HEIGHT
    /\ RawHeight(clientY) > maxHeight(innerHeight)
    /\ editorHeight = maxHeight(innerHeight)

\* C15: in every state the editor height is at least the minimum and at most
\* floor(innerHeight * 0.6), for every viewport height.
C15_HeightWithinBounds ==
    /\ MIN_EDITOR_HEIGHT <= editorHeight
    /\ editorHeight <= maxHeight(innerHeight)

\* C16: a pointer move changes the height and the store only while the
\* handle is dragged, that is after a startResizing with no stopResizing
\* since; a move at rest changes neither; stopResizing ends the drag and
\* startResizing begins it without changing the height or the store.
C16_MoveActsOnlyWhileDragging ==
    [][/\ (lastOp' = "handleResize" /\ ~isResizing) =>
              (editorHeight' = editorHeight /\ storage' = storage)
       /\ (lastOp' = "handleResize" /\ editorHeight' # editorHeight) => isResizing
       /\ lastOp' = "handleResize" => isResizing' = isResizing
       /\ lastOp' = "stopResizing" =>
              (~isResizing' /\ editorHeight' = editorHeight /\ storage' = storage)
       /\ lastOp' = "startResizing" =>
              (isResizing' /\ editorHeight' = editorHeight /\ storage' = storage)
       /\ isResizing' # isResizing =>
              lastOp' \in {"startResizing", "stopResizing", "reload"}]_vars

\* C16 witness: a move at rest whose raw height differs from the height
C16_Witness ==
    /\ lastOp = "handleResize"
    /\ ~isResizing
    /\ RawHeight(clientY) >= MIN_EDITOR_HEIGHT
    /\ RawHeight(clientY) <= maxHeight(innerHeight)
    /\ RawHeight(clientY) # editorHeight

\* C17: in every state, and so after each single pointer move and before any
\* later event, the entry under the height key is the decimal string of the
\* current editor height.
C17_HeightPersistedOnEveryCommit ==
    /\ storage[EDITOR_HEIGHT] = Item(NumberToString(editorHeight))
    /\ parseInt(storage[EDITOR_HEIGHT].value) = [nan |-> FALSE, value |-> editorHeight]

\* C17 witness: in the middle of a drag a move has committed its raw height,
\* which is not the height the session started with, and the store holds it
C17_Witness ==
    /\ lastOp = "handleResize"
    /\ isResizing
    /\ editorHeight = RawHeight(clientY)
    /\ editorHeight # loadEditorHeight(storageAtLoad)
    /\ storage[EDITOR_HEIGHT] = Item(NumberToString(editorHeight))

\* the states right after the lazy initialisers and the effects at mount
JustLoaded == lastOp \in {"init", "reload"}

\* whether a string is the prefix of another
IsPrefix(p, s) == Len(p) <= Len(s) /\ SubSeq(s, 1, Len(p)) = p

\* the string, leading whitespace apart, starts with the decimal digits of n
\* and no further digit follows them
StartsWithNumber(string, n) ==
    LET s == TrimStart(string)
        ds == NumberToString(n)
    IN  /\ IsPrefix(ds, s)
        /\ (Len(s) > Len(ds) => ~IsDigit(s[Len(ds) + 1]))

\* the string is an integer written in decimal: digits and nothing else
IsDecimalInteger(string) ==
    /\ string # << >>
    /\ \A i \in DOMAIN string : IsDigit(string[i])

\* the heights the explored stores and viewports can hold
Heights == 0..(DefaultEditorHeight + ViewportStep * MaxViewports)

C19_ReloadRestoresPreferences ==
    [][lastOp' = "reload" =>
          /\ darkMode' = darkMode
          /\ editorHeight' = editorHeight]_vars

\* C20: a double-click on the resize handle sets the editor height to the
\* default 220 whatever it was, involves no pointer move, stores the default,
\* and leaves the handle at rest.
C20_DoubleClickResets ==
    [][lastOp' = "resetEditorHeight" =>
          /\ editorHeight' = DefaultEditorHeight
          /\ storage'[EDITOR_HEIGHT] = Item(NumberToString(DefaultEditorHeight))
          /\ ~isResizing'
          /\ clientY' = 0
          /\ innerHeight' = innerHeight
          /\ darkMode' = darkMode]_vars

\* C20 witness: in a session that started with a height other than the
\* default, a double-click has set the default and the handle is at rest
C20_Witness ==
    /\ lastOp = "resetEditorHeight"
    /\ editorHeight = DefaultEditorHeight
    /\ ~isResizing
    /\ loadEditorHeight(storageAtLoad) # DefaultEditorHeight

Other(n) == IF n = "original" THEN "modified" ELSE "original"

\* C21: for a name whose instance is disposed, acquire creates a new instance
\* with empty text and language 'plaintext', leaves the other name's
\* instance, text and language alone, and a further acquire returns the state
\* unchanged; each task that brings a disposed name back is a render of App,
\* the instance is new, its text is empty, no exception is raised, and a live
\* other buffer keeps its instance and its text.
C21_FreshStartAfterRelease ==
    /\ [](\A n \in Names :
            disposed[n] =>
                LET s == AcquireModel(Cur, n)
                IN  /\ ~s.disposed[n]
                    /\ s.modelRef[n] # modelRef[n]
                    /\ s.text[n] = << >>
                    /\ s.modelLang[n] = "plaintext"
                    /\ s.created[n] = created[n] + 1
                    /\ ~s.threw
                    /\ s.modelRef[Other(n)] = modelRef[Other(n)]
                    /\ s.text[Other(n)] = text[Other(n)]
                    /\ s.modelLang[Other(n)] = modelLang[Other(n)]
                    /\ s.disposed[Other(n)] = disposed[Other(n)]
                    /\ AcquireModel(s, n) = s)
    /\ [][\A n \in Names :
            (disposed[n] /\ ~disposed'[n]) =>
                /\ lastOp' \in RenderOps
                /\ modelRef'[n] # modelRef[n]
                /\ created'[n] = created[n] + 1
                /\ text'[n] = << >>
                /\ ~threw'
                /\ (~disposed[Other(n)] =>
                       /\ modelRef'[Other(n)] = modelRef[Other(n)]
                       /\ text'[Other(n)] = text[Other(n)])]_vars

\* C21 witness: the original model was disposed and created again, empty,
\* while the modified model is still the first instance and keeps its text
C21_Witness ==
    /\ created["original"] = 2
    /\ ~disposed["original"]
    /\ text["original"] = << >>
    /\ created["modified"] = 1
    /\ text["modified"] # << >>

\* C22: a clear that does not throw leaves both texts empty; a clear of one
\* buffer that does not throw leaves that text empty and the other text as it
\* was; none of them changes an instance or the language selection.
C22_ClearFrame ==
    [][(lastOp' \in ClearOps /\ ~threw') =>
          /\ lastOp' = "handleClear" => text' = NoText
          /\ lastOp' = "handleClearOriginal" =>
                 (text'["original"] = << >> /\ text'["modified"] = text["modified"])
          /\ lastOp' = "handleClearModified" =>
                 (text'["modified"] = << >> /\ text'["original"] = text["original"])
          /\ modelRef' = modelRef
          /\ disposed' = disposed
          /\ created' = created
          /\ language' = language]_vars

\* C22 witness: the original buffer was cleared while the modified buffer
\* holds a text
C22_Witness ==
    /\ lastOp = "handleClearOriginal"
    /\ ~threw
    /\ text["original"] = << >>
    /\ text["modified"] # << >>
    /\ Len(notifs) = 1

\* C30: while the selection is a concrete tag detectedLanguage is that tag;
\* re-selecting 'auto' leaves it at that tag, and under 'auto' only a timer
\* callback changes it.
C30_DetectedFollowsConcreteSelection ==
    /\ [](language # "auto" => detectedLanguage = language)
    /\ [][(language # "auto" /\ language' = "auto") =>
            detectedLanguage' = language]_vars
    /\ [][(language' = "auto" /\ detectedLanguage' # detectedLanguage) =>
            lastOp' = "timer"]_vars

\* C30 witness: 'auto' was re-selected after a concrete tag, the timer has not
\* fired yet, and detectedLanguage is still that tag
C30_Witness ==
    /\ lastOp = "setLanguage"
    /\ language = "auto"
    /\ detectedLanguage = "javascript"
    /\ pending # {}

\* C24 as stated: in every step that changes the editor height the handle is
\* being dragged.
C24_HeightChangesOnlyWhileDragging ==
    [][editorHeight' # editorHeight => isResizing]_vars

\* C24 (amended): the editor height changes only in a pointer move made while
\* the handle is dragged, in a double-click reset, which happens at rest, or
\* when a new session loads it.
C24_HeightChangesByMoveResetOrLoad ==
    [][editorHeight' # editorHeight =>
          \/ lastOp' = "handleResize" /\ isResizing /\ isResizing'
          \/ lastOp' = "resetEditorHeight" /\ ~isResizing /\ ~isResizing'
          \/ lastOp' = "reload"]_vars

\* C24 witness: a double-click at rest has replaced a height above the
\* default by the default
C24_Witness ==
    /\ lastOp = "resetEditorHeight"
    /\ ~isResizing
    /\ editorHeight = DefaultEditorHeight
    /\ loadEditorHeight(storageAtLoad) > DefaultEditorHeight
    /\ storage[EDITOR_HEIGHT] = Item(NumberToString(DefaultEditorHeight))

\* the resize and preference tasks, and the buffer and language tasks
LayoutOps ==
    {"startResizing", "stopResizing", "handleResize", "resetEditorHeight",
     "toggleDarkMode"}

BufferOps == {"edit", "handleSwap", "setLanguage"} \cup ClearOps

\* C25: a resize or preference task changes no text, instance, language
\* selection or detected language, calls detect() for no model and sets or
\* clears no timer; a buffer or language task changes neither the editor
\* height, the drag state, dark mode nor anything in the store.
C25_LayoutAndBuffersOrthogonal ==
    [][/\ lastOp' \in LayoutOps =>
              /\ text' = text
              /\ modelRef' = modelRef
              /\ modelLang' = modelLang
              /\ language' = language
              /\ detectedLanguage' = detectedLanguage
              /\ timer' = timer
              /\ pending' = pending
              /\ listeners' = listeners
              /\ textAtTrigger' = textAtTrigger
              /\ runsSinceTrigger' = runsSinceTrigger
              /\ notifs' = << >>
       /\ lastOp' \in BufferOps =>
              /\ editorHeight' = editorHeight
              /\ isResizing' = isResizing
              /\ darkMode' = darkMode
              /\ storage' = storage]_vars

\* C25 witness: with a text in a buffer and a detection pending, a pointer
\* move of a drag has changed the height and its stored value
C25_Witness ==
    /\ lastOp = "handleResize"
    /\ isResizing
    /\ editorHeight = RawHeight(clientY)
    /\ editorHeight # DefaultEditorHeight
    /\ text["original"] # << >>
    /\ language = "auto"
    /\ pending # {}
    /\ runsSinceTrigger = 0

\* the first SAMPLE_LEN characters of a text, position by position
FirstChars(s) ==
    [i \in 1..(IF Len(s) < SAMPLE_LEN THEN Len(s) ELSE SAMPLE_LEN) |-> s[i]]

\* C27: the content a timer callback examines is the trimmed join of the
\* first 1000 characters of the original text, a newline, and the first 1000
\* characters of the modified text: it is at most 2001 characters long and
\* is decided by those first characters alone, the classifier is skipped
\* exactly when they are all whitespace, and a buffer whose first 1000
\* characters are all whitespace adds nothing to it, whatever follows them.
C27_SampleIsBounded ==
    (lastOp = "timer" /\ lastRun.status \in {"blank", "classified"}) =>
        LET o == FirstChars(lastRun.read["original"])
            m == FirstChars(lastRun.read["modified"])
        IN  /\ lastRun.read = text
            /\ Len(lastRun.sample) <= SAMPLE_LEN + 1 + SAMPLE_LEN
            /\ lastRun.sample = Trim(o \o << "\n" >> \o m)
            /\ (lastRun.status = "blank") = (AllWhitespace(o) /\ AllWhitespace(m))
            /\ (AllWhitespace(o) => lastRun.sample = Trim(m))
            /\ (AllWhitespace(m) => lastRun.sample = Trim(o))

\* C27 witness: the original text is 1000 blanks followed by a letter and the
\* modified text is empty; the callback found the content blank and did not
\* call the classifier
C27_Witness ==
    /\ lastOp = "timer"
    /\ lastRun.status = "blank"
    /\ Len(lastRun.read["original"]) > SAMPLE_LEN
    /\ lastRun.read["original"][SAMPLE_LEN + 1] = "a"
    /\ AllWhitespace(FirstChars(lastRun.read["original"]))
    /\ lastRun.read["modified"] = << >>
    /\ detectedLanguage = "plaintext"


\* the preference values of the earlier configuration in this state
Settings ==
    [ diffStyle |-> diffStyle, lineDiffType |-> lineDiffType,
      showBackgrounds |-> showBackgrounds, wrapText |-> wrapText,
      showLineNumbers |-> showLineNumbers ]

LoadOps == {"init", "reloadSettings"}

\* C23: in the earlier configuration every preference is always inside its
\* domain; right after a load, diff style is 'unified' exactly when the store
\* held 'unified' and 'split' otherwise, the granularity is the stored string
\* exactly when that is one of the four granularities and 'word-alt'
\* otherwise, and each toggle is false exactly when the store held 'false';
\* and what the persisting effects wrote is always read back unchanged
C23_EarlierPreferencesLoad ==
    /\ diffStyle \in DiffStyles
    /\ lineDiffType \in LineDiffTypes
    /\ showBackgrounds \in BOOLEAN
    /\ wrapText \in BOOLEAN
    /\ showLineNumbers \in BOOLEAN
    /\ loadSettings(settingStorage) = Settings
    /\ lastOp \in LoadOps =>
           LET at == settingStorageAtLoad
           IN  /\ diffStyle = (IF at[DIFF_STYLE] = Item(Unified)
                               THEN Unified ELSE Split)
               /\ lineDiffType =
                      (IF at[LINE_DIFF_TYPE] \in {Item(t) : t \in LineDiffTypes}
                       THEN at[LINE_DIFF_TYPE].value ELSE WordAlt)
               /\ showBackgrounds = (at[SHOW_BACKGROUNDS] # Item(BooleanToString(FALSE)))
               /\ wrapText = (at[WRAP_TEXT] # Item(BooleanToString(FALSE)))
               /\ showLineNumbers = (at[SHOW_LINE_NUMBERS] # Item(BooleanToString(FALSE)))

\* a reload has read back values that the user chose and the effects saved
C23_Witness ==
    /\ lastOp = "reloadSettings"
    /\ diffStyle = Unified
    /\ lineDiffType = NoDiff
    /\ ~wrapText
    /\ settingStorageAtLoad[SHOW_LINE_NUMBERS] = Item(BooleanToString(TRUE))


\* the texts the buffers of the instance inst hold
WidgetTexts(inst) == [n \in Names |-> wModels[wRef[inst][n]].text]

\* C26: whenever the diff viewer is mounted and the task has ended, its
\* original and modified buffers hold the original and modified content, also
\* when both contents are empty
C26_DiffViewerHoldsContent ==
    "diff" \in wMounted => WidgetTexts("diff") = contentState

\* C26 as the widgets keep it: whenever the diff viewer is mounted and the
\* task has ended, its buffers hold the content, except in the widget whose
\* diff sync is guarded while both contents are empty: there the hidden
\* viewer keeps the texts it had
C26_DiffViewerHoldsContentUnlessHidden ==
    "diff" \in wMounted =>
        \/ WidgetTexts("diff") = contentState
        \/ /\ variant = "modesGuarded"
           /\ contentState = [n \in Names |-> << >>]

\* the guarded widget has brought its diff viewer up to date after a swap of
\* a dropped text with mixed line ends
C26_Witness ==
    /\ lastOp = "swapContent"
    /\ variant = "modesGuarded"
    /\ "diff" \in wMounted
    /\ contentState["modified"] = << "a", "\n", "b", "\n" >>
    /\ WidgetTexts("diff") = contentState


\* C28: in the prop-driven widget every task ends with no setter call left to
\* commit, after at most one commit beyond the one of the change itself, at
\* most two change notifications and four setValue calls; a user edit causes
\* one notification and no setValue on an editor model; and afterwards each
\* mounted editor model holds the content state of its name
C28_SyncLoopTerminates ==
    /\ wTask.settled
    /\ wTask.rounds <= 2
    /\ wTask.notifs <= 2
    /\ wTask.setValues <= 4
    /\ lastOp = "userEdit" => (wTask.notifs = 1 /\ wTask.editorSetValues = 0)
    /\ "editors" \in wMounted => WidgetTexts("editors") = contentState

\* a dropped text with lone carriage returns: the sync effect wrote it to the
\* editor model, the listener passed the normalised text to the setter, and
\* the second commit found model and content equal
C28_Witness ==
    /\ lastOp = "fileDrop"
    /\ wTask.rounds = 2
    /\ wTask.notifs = 1
    /\ wTask.editorSetValues = 1
    /\ wTask.settled
    /\ contentState["original"] = << "a", "\r", "\n" >>


\* the widget-owned models that are not disposed
LiveWidgetModels == {id \in DOMAIN wModels : wModels[id].disposeCalls = 0}

\* the models the refs of the mounted instances hold
MountedWidgetModels == {wRef[inst][n] : inst \in wMounted, n \in Names}

\* C29: of the models the prop-driven widgets created, the live ones are
\* exactly the two of each mounted instance; no model and no listener is
\* disposed twice, a listener is disposed exactly when its model is, only
\* editor models ever carry a listener, and no task reads or writes a
\* disposed model
C29_WidgetModelsDisposedExactlyOnce ==
    /\ LiveWidgetModels = MountedWidgetModels
    /\ Cardinality(LiveWidgetModels) = 2 * Cardinality(wMounted)
    /\ ~wTask.usedDisposed
    /\ \A id \in DOMAIN wModels :
        /\ wModels[id].disposeCalls <= 1
        /\ wModels[id].listenerDisposeCalls <= 1
        /\ wModels[id].listening =
               (wModels[id].inst = "editors" /\ wModels[id].disposeCalls = 0)
        /\ wModels[id].listenerDisposeCalls =
               (IF wModels[id].inst = "editors" THEN wModels[id].disposeCalls ELSE 0)

\* both instances were unmounted and mounted again: four models are disposed,
\* and the four live ones hold the content a user typed
C29_Witness ==
    /\ wMounted = Insts
    /\ Cardinality(DOMAIN wModels \ LiveWidgetModels) = 4
    /\ Cardinality(LiveWidgetModels) = 4
    /\ contentState["original"] = << "a" >>
    /\ WidgetTexts("diff") = contentState
    /\ lastOp = "mountWidget"

====
